---------------------------- MODULE Spec2Model ----------------------------
(***************************************************************************)
(* Model of the activity tracker (src/activity_tracker): the sampling      *)
(* loop of ActivityTracker.start_tracking, the merge-or-append step of     *)
(* log_current_activity, idle and typing detection, the day file, and      *)
(* the classifier categorize_activity.                                     *)
(*                                                                         *)
(* Python strings whose characters matter (app names, window titles,       *)
(* category keywords) are sequences of one-character strings, so that      *)
(* str.lower, the `in` substring test and str.replace are computed.        *)
(***************************************************************************)
EXTENDS Integers, Sequences, FiniteSets, TLC

VARIABLES
    now,                \* time.time(), in seconds since the process started
    cfgfile,            \* ~/.activity_tracker/activity_config.json
    files,              \* ~/.activity_tracker/activity_<date>.json, per date
    pc,                 \* position of the main thread
    config,             \* ConfigManager.config
    today_date,         \* ActivityTracker.today_date
    activities,         \* ActivityTracker.activities
    current_activity,   \* ActivityTracker.current_activity
    sampling_interval,  \* ActivityTracker.sampling_interval
    last_mouse_pos,     \* ActivityTracker._last_mouse_pos
    last_window_title,  \* ActivityTracker._last_window_title
    current_mouse,      \* local of start_tracking, kept across iterations
    is_typing,          \* ActivityTracker.is_typing
    last_keypress_time, \* ActivityTracker.last_keypress_time
    keyboard_listener,  \* ActivityTracker.keyboard_listener is not None
    last_activity_time, \* ActivityTracker.last_activity_time
    is_idle,            \* ActivityTracker.is_idle
    idle_duration,      \* local of check_idle_status
    window_info,        \* local of log_current_activity
    category,           \* local of log_current_activity
    elapsed,            \* local of _check_typing_status
    timestamp,          \* local of log_current_activity
    activity,           \* local of log_current_activity
    wake_at,            \* end of the running time.sleep
    tick_error,         \* the current iteration reached `except Exception` (line 282)
    loaded,             \* number of records _load_today_activities read
    trace,              \* what each call of log_current_activity observed
    keys,               \* key presses the run may still see
    faults,             \* failing system calls the run may still see
    signals             \* termination signals the run may still see

vars == << now, cfgfile, files, pc, config, today_date, activities,
           current_activity, sampling_interval, last_mouse_pos,
           last_window_title, current_mouse, is_typing, last_keypress_time,
           keyboard_listener, last_activity_time, is_idle, idle_duration,
           window_info, category, elapsed, timestamp, activity, wake_at,
           tick_error, loaded, trace, keys, faults, signals >>

----------------------------------------------------------------------------
(* Python values *)

\* None, where the other values are dicts
None == [is_none |-> TRUE]

\* None, where the other values are strings (sequences of characters)
NoneStr == << "<None>" >>

Min(S) == CHOOSE x \in S : \A y \in S : x <= y

----------------------------------------------------------------------------
(* str methods *)

\* one character of str.lower()
LowerChar(c) ==
    CASE c = "A" -> "a" [] c = "B" -> "b" [] c = "C" -> "c" [] c = "D" -> "d"
      [] c = "E" -> "e" [] c = "F" -> "f" [] c = "G" -> "g" [] c = "H" -> "h"
      [] c = "I" -> "i" [] c = "J" -> "j" [] c = "K" -> "k" [] c = "L" -> "l"
      [] c = "M" -> "m" [] c = "N" -> "n" [] c = "O" -> "o" [] c = "P" -> "p"
      [] c = "Q" -> "q" [] c = "R" -> "r" [] c = "S" -> "s" [] c = "T" -> "t"
      [] c = "U" -> "u" [] c = "V" -> "v" [] c = "W" -> "w" [] c = "X" -> "x"
      [] c = "Y" -> "y" [] c = "Z" -> "z" [] OTHER -> c

\* s.lower()
Lower(s) == [i \in 1..Len(s) |-> LowerChar(s[i])]

\* sub in s
Contains(sub, s) ==
    \E i \in 0..(Len(s) - Len(sub)) : SubSeq(s, i + 1, i + Len(sub)) = sub

\* s.replace(old, ""), old not empty: leftmost non-overlapping occurrences
RECURSIVE Remove(_, _)
Remove(s, old) ==
    IF Len(s) < Len(old) THEN s
    ELSE IF SubSeq(s, 1, Len(old)) = old
         THEN Remove(SubSeq(s, Len(old) + 1, Len(s)), old)
         ELSE << Head(s) >> \o Remove(Tail(s), old)

----------------------------------------------------------------------------
(* ConfigManager *)

DEFAULT_CONFIG ==
    [ ignored_apps |-> << <<"e","x","p","l","o","r","e","r",".","e","x","e">>,
                          <<"F","i","n","d","e","r">>,
                          <<"S","y","s","t","e","m","U","I">> >>,
      categories |-> <<
        [name |-> "Coding", apps |-> << <<"v","s","c","o","d","e">>,
            <<"p","y","c","h","a","r","m">>,
            <<"i","n","t","e","l","l","i","j">>,
            <<"s","u","b","l","i","m","e","_","t","e","x","t">>,
            <<"v","i","m">>,
            <<"a","t","o","m">>,
            <<"c","o","d","e">> >>],
        [name |-> "Communication", apps |-> << <<"o","u","t","l","o","o","k">>,
            <<"t","h","u","n","d","e","r","b","i","r","d">>,
            <<"s","l","a","c","k">>,
            <<"t","e","a","m","s">>,
            <<"d","i","s","c","o","r","d">>,
            <<"z","o","o","m">> >>],
        [name |-> "Browsing", apps |-> << <<"c","h","r","o","m","e">>,
            <<"f","i","r","e","f","o","x">>,
            <<"s","a","f","a","r","i">>,
            <<"e","d","g","e">> >>],
        [name |-> "Documents", apps |-> << <<"w","o","r","d">>,
            <<"e","x","c","e","l">>,
            <<"p","o","w","e","r","p","o","i","n","t">>,
            <<"a","c","r","o","b","a","t">>,
            <<"p","d","f">> >>],
        [name |-> "Terminal", apps |-> << <<"t","e","r","m","i","n","a","l">>,
            <<"c","m","d">>,
            <<"p","o","w","e","r","s","h","e","l","l">>,
            <<"i","t","e","r","m","2">>,
            <<"g","n","o","m","e","-","t","e","r","m","i","n","a","l">>,
            <<"k","o","n","s","o","l","e">> >>],
        [name |-> "Design", apps |-> << <<"p","h","o","t","o","s","h","o","p">>,
            <<"i","l","l","u","s","t","r","a","t","o","r">>,
            <<"f","i","g","m","a">>,
            <<"s","k","e","t","c","h">>,
            <<"g","i","m","p">> >>],
        [name |-> "Media", apps |-> << <<"v","l","c">>,
            <<"s","p","o","t","i","f","y">>,
            <<"i","t","u","n","e","s">>,
            <<"w","i","n","d","o","w","s"," ","m","e","d","i","a"," ","p","l","a","y","e","r">> >>],
        [name |-> "Other", apps |-> << >>] >>,
      sampling_interval |-> 30 ]

\* config.get('sampling_interval', 30)
get_sampling_interval(cfg) == cfg.sampling_interval

----------------------------------------------------------------------------
(* ActivityTracker.categorize_activity *)

\* app_name in [x.lower() for x in config['ignored_apps']]
IsIgnored(app_name, cfg) ==
    \E i \in 1..Len(cfg.ignored_apps) : Lower(cfg.ignored_apps[i]) = app_name

\* any(app.lower() in app_name for app in apps)
AnyAppIn(apps, app_name) ==
    \E k \in 1..Len(apps) : Contains(Lower(apps[k]), app_name)

\* a variant of the loop over the categories in which the last match wins
FirstCategory_last(app_name, cfg) ==
    LET hits == { i \in 1..Len(cfg.categories) :
                    AnyAppIn(cfg.categories[i].apps, app_name) }
    IN  IF hits = {} THEN 0 ELSE CHOOSE x \in hits : \A y \in hits : y <= x

\* for category, apps in config['categories'].items(): the first that returns
FirstCategory(app_name, cfg) ==
    LET hits == { i \in 1..Len(cfg.categories) :
                    AnyAppIn(cfg.categories[i].apps, app_name) }
    IN  IF hits = {} THEN 0 ELSE Min(hits)

SourceExtensions ==
    << <<".","p","y">>, <<".","j","s">>, <<".","h","t","m","l">>,
       <<".","c","s","s">>, <<".","j","a","v","a">>, <<".","g","o">>,
       <<".","c">>, <<".","c","p","p">> >>

\* a variant of the `if` chain that tests the document words first
TitleCategory_documents_first(title) ==
    IF \/ Contains(<<"d","o","c","u","m","e","n","t">>, title)
       \/ Contains(<<".","d","o","c">>, title)
       \/ Contains(<<".","t","x","t">>, title)
    THEN "Documents"
    ELSE IF \/ Contains(<<"e","m","a","i","l">>, title)
            \/ Contains(<<"m","a","i","l">>, title)
    THEN "Communication"
    ELSE IF \/ Contains(<<"c","o","d","e">>, title)
            \/ Contains(<<"s","c","r","i","p","t">>, title)
            \/ \E k \in 1..Len(SourceExtensions) :
                  Contains(SourceExtensions[k], title)
    THEN "Coding"
    ELSE "Other"

\* the `if` chain on the lowered window title
TitleCategory(title) ==
    IF \/ Contains(<<"e","m","a","i","l">>, title)
       \/ Contains(<<"m","a","i","l">>, title)
    THEN "Communication"
    ELSE IF \/ Contains(<<"d","o","c","u","m","e","n","t">>, title)
            \/ Contains(<<".","d","o","c">>, title)
            \/ Contains(<<".","t","x","t">>, title)
    THEN "Documents"
    ELSE IF \/ Contains(<<"c","o","d","e">>, title)
            \/ Contains(<<"s","c","r","i","p","t">>, title)
            \/ \E k \in 1..Len(SourceExtensions) :
                  Contains(SourceExtensions[k], title)
    THEN "Coding"
    ELSE "Other"

categorize_activity(info, cfg) ==
    IF info = None THEN "Idle"
    ELSE LET app_name == Lower(info.app)
             title    == Lower(info.title)
         IN  IF IsIgnored(app_name, cfg) THEN "System"
             ELSE IF FirstCategory(app_name, cfg) # 0
                  THEN cfg.categories[FirstCategory(app_name, cfg)].name
                  ELSE TitleCategory(title)

----------------------------------------------------------------------------
(* Bounds of the model and constants of the program *)

MaxTime == 64        \* the clock stops here
MaxJitter == 2       \* seconds at the end of a sleep that pass one by one
Midnight == 45       \* the local date changes at this time
MaxKeys == 2         \* key presses in one run
MaxFaults == 1       \* failing system calls in one run
MaxSignals == 1      \* termination signals in one run

idle_threshold == 30
typing_inactivity_threshold == 2

Dates == {"d1", "d2"}

\* datetime.datetime.now().strftime('%Y-%m-%d')
DateOf(t) == IF t < Midnight THEN "d1" ELSE "d2"

----------------------------------------------------------------------------
(* What the operating system answers *)

TypingSuffix == <<" ","(","t","y","p","i","n","g",")">>
IdleApp == <<"I","d","l","e">>
IdleTitle == <<"U","s","e","r"," ","i","n","a","c","t","i","v","e">>

\* foreground windows the probe may report: {'app': ..., 'title': ...}
Windows ==
    { [app |-> <<"c","o","d","e">>, title |-> <<"a",".","p","y">>],
      [app |-> <<"c","o","d","e">>, title |-> <<"a",".","p","y">> \o TypingSuffix],
      [app |-> IdleApp,             title |-> <<"a",".","p","y">>],
      [app |-> IdleApp,             title |-> IdleTitle] }

\* the platform query raised inside get_active_window_info
ProbeRaises == [raises |-> TRUE]

\* what the platform query of get_active_window_info ends with
ProbeOutcomes == Windows \cup {None, ProbeRaises}

\* xdotool getmouselocation: a position, or the call fails
MouseOutcomes == {"fail", "x:1 y:1", "x:2 y:2"}

\* xdotool getwindowname: a title, or the call fails (NoneStr)
TitleOutcomes == { NoneStr, <<"a",".","p","y">>, IdleTitle }

\* a variant of get_active_window_info without its `except Exception`
get_active_window_info_uncaught(raw) == raw

\* WindowTracker.get_active_window_info: `except Exception` returns None
get_active_window_info(raw) == IF raw = ProbeRaises THEN None ELSE raw

----------------------------------------------------------------------------
(* The config file and the day files *)

FileAbsent == [kind |-> "absent"]
FileInvalid == [kind |-> "invalid"]      \* not JSON: empty, cut short, garbage
FileJson(data) == [kind |-> "json", data |-> data]

\* a configuration the user wrote
CustomConfig ==
    [ ignored_apps |-> << <<"V","i","m">> >>,
      categories |-> << [name |-> "Editing", apps |-> << <<"C","O","D","E">> >>] >>,
      sampling_interval |-> 45 ]

ConfigFiles == { FileAbsent, FileInvalid, FileJson(CustomConfig) }

\* a variant of the dump that leaves the typing flag out
DumpRecord_without_typing(r) ==
    << <<"timestamp", r.timestamp>>, <<"app", r.app>>, <<"title", r.title>>,
       <<"category", r.category>>, <<"duration", r.duration>> >>

\* json.dump of one activity: the dict's items in insertion order
DumpRecord(r) ==
    << <<"timestamp", r.timestamp>>, <<"app", r.app>>, <<"title", r.title>>,
       <<"category", r.category>>, <<"duration", r.duration>> >>
    \o (IF "is_typing" \in DOMAIN r THEN << <<"is_typing", r.is_typing>> >> ELSE << >>)

\* json.dump(self.activities, f, indent=4)
json_dump(acts) == [i \in 1..Len(acts) |-> DumpRecord(acts[i])]

\* json.load of one object
LoadRecord(obj) ==
    [k \in {obj[i][1] : i \in 1..Len(obj)} |->
        LET i == CHOOSE j \in 1..Len(obj) :
                    /\ obj[j][1] = k
                    /\ \A l \in (j + 1)..Len(obj) : obj[l][1] # k
        IN  obj[i][2]]

\* json.load(f)
json_load(data) == [i \in 1..Len(data) |-> LoadRecord(data[i])]

\* a record an earlier run of the same day left in the day file
EarlierRecord ==
    [ timestamp |-> -60, app |-> <<"c","o","d","e">>, title |-> <<"a",".","p","y">>,
      category |-> "Coding", duration |-> 50, is_typing |-> FALSE ]

DayFiles == { FileAbsent, FileInvalid, FileJson(json_dump(<< EarlierRecord >>)) }

----------------------------------------------------------------------------
(* The activity dicts of log_current_activity *)

\* a variant of the idle dict that takes the classifier's default category
IdleActivity_unclassified(ts, interval) ==
    [ timestamp |-> ts, app |-> IdleApp, title |-> IdleTitle,
      category |-> "Other", duration |-> interval ]

IdleActivity(ts, interval) ==
    [ timestamp |-> ts, app |-> IdleApp, title |-> IdleTitle,
      category |-> "Idle", duration |-> interval ]

WindowActivity(ts, info, cat, interval, typing) ==
    [ timestamp |-> ts, app |-> info.app,
      title |-> info.title \o (IF typing THEN TypingSuffix ELSE << >>),
      category |-> cat, duration |-> interval, is_typing |-> typing ]

\* a variant of the comparison that keeps the typing suffix in the titles
is_same_activity_exact(cur, act) ==
    /\ cur.app = act.app
    /\ cur.title = act.title

\* a variant of the comparison that looks at the app alone
is_same_activity_app_only(cur, act) ==
    cur.app = act.app

\* the comparison of the merge step
is_same_activity(cur, act) ==
    /\ cur.app = act.app
    /\ Remove(cur.title, TypingSuffix) = Remove(act.title, TypingSuffix)

\* a variant of the merge that keeps the stored title and typing flag
MergedRecord_stale(last, act, interval) ==
    [last EXCEPT !.duration = @ + interval]

\* a variant of the merge that counts ticks instead of seconds
MergedRecord_counting(last, act, interval) ==
    LET longer == [last EXCEPT !.duration = @ + 1]
    IN  IF "is_typing" \in DOMAIN act
        THEN [k \in DOMAIN longer \cup {"is_typing"} |->
                IF k = "is_typing" THEN act.is_typing
                ELSE IF k = "title" THEN act.title
                ELSE longer[k]]
        ELSE longer

\* the last record after a tick was merged into it
MergedRecord(last, act, interval) ==
    LET longer == [last EXCEPT !.duration = @ + interval]
    IN  IF "is_typing" \in DOMAIN act
        THEN [k \in DOMAIN longer \cup {"is_typing"} |->
                IF k = "is_typing" THEN act.is_typing
                ELSE IF k = "title" THEN act.title
                ELSE longer[k]]
        ELSE longer

----------------------------------------------------------------------------
(* Groups of variables *)

diskVars  == << cfgfile, files >>
setupVars == << config, today_date, sampling_interval >>
listVars  == << activities, current_activity >>
pollVars  == << last_mouse_pos, last_window_title, current_mouse >>
inputVars == << is_typing, last_keypress_time, keyboard_listener,
                last_activity_time, is_idle >>
localVars == << idle_duration, window_info, category, elapsed, timestamp,
                activity >>

----------------------------------------------------------------------------
(* The state before ActivityTracker() is constructed *)

\* what disturbs one run: key presses, failing system calls, or a signal
Disturbances ==
    { << MaxKeys, 0, 0 >>, << 0, MaxFaults, 0 >>, << 0, 0, MaxSignals >> }

\* the day file a run starts from and what disturbs the run; the runs with
\* key presses start from an empty timeline
Scenarios ==
    { sc \in DayFiles \X Disturbances : sc[1].kind = "json" => sc[2][1] = 0 }

Init ==
    /\ now = 0
    /\ cfgfile \in ConfigFiles
    /\ \E sc \in Scenarios :
         /\ files = [d \in Dates |-> IF d = DateOf(0) THEN sc[1] ELSE FileAbsent]
         /\ keys = sc[2][1]
         /\ faults = sc[2][2]
         /\ signals = sc[2][3]
    /\ pc = "init"
    /\ config = None
    /\ today_date = ""
    /\ activities = << >>
    /\ current_activity = None
    /\ sampling_interval = 0
    /\ last_mouse_pos = "None"
    /\ last_window_title = NoneStr
    /\ current_mouse = "unbound"
    /\ is_typing = FALSE
    /\ last_keypress_time = 0
    /\ keyboard_listener = FALSE
    /\ last_activity_time = 0
    /\ is_idle = FALSE
    /\ idle_duration = 0
    /\ window_info = None
    /\ category = ""
    /\ elapsed = 0
    /\ timestamp = 0
    /\ activity = None
    /\ wake_at = 0
    /\ tick_error = FALSE
    /\ loaded = 0
    /\ trace = << >>

Running == pc \notin {"init", "crashed", "exited"}

----------------------------------------------------------------------------
(* ActivityTracker.__init__ *)

\* json.load(f) raises json.JSONDecodeError
json_load_raises(f) == f.kind = "invalid"

\* ConfigManager.load_config, when json.load does not raise
load_config(f) ==
    IF f.kind = "absent" THEN DEFAULT_CONFIG ELSE f.data

\* _load_today_activities, when json.load does not raise
load_today_activities(f) ==
    IF f.kind = "absent" THEN << >> ELSE json_load(f.data)

\* a variant of load_config that swallows the exception and uses the defaults
ConfigErrorPropagates_defaults(f) == FALSE

\* the exception of ConfigManager.load_config leaves __init__
ConfigErrorPropagates(f) == json_load_raises(f)

\* the exception of _load_today_activities leaves __init__
LoadErrorPropagates(f) == json_load_raises(f)

\* _start_keyboard_monitoring: the listener starts, or the exception is swallowed
ListenerStarts == BOOLEAN

\* a variant of _start_keyboard_monitoring that lets the exception leave __init__
ListenerErrorPropagates_fatal(started) == ~started

\* lines 67-69: the exception of the listener's start is caught and printed
ListenerErrorPropagates(started) == FALSE

Construct ==
    /\ pc = "init"
    /\ LET cfg   == IF json_load_raises(cfgfile)
                    THEN DEFAULT_CONFIG ELSE load_config(cfgfile)
           date  == DateOf(now)
           acts  == load_today_activities(files[date])
       IN  IF ConfigErrorPropagates(cfgfile)
           THEN /\ pc' = "crashed"
                /\ UNCHANGED << cfgfile, setupVars, activities, loaded, inputVars, signals >>
           ELSE /\ cfgfile' = IF cfgfile.kind = "absent"
                              THEN FileJson(DEFAULT_CONFIG) ELSE cfgfile
                /\ config' = cfg
                /\ today_date' = date
                /\ sampling_interval' = get_sampling_interval(cfg)
                /\ IF LoadErrorPropagates(files[date])
                   THEN /\ pc' = "crashed"
                        /\ UNCHANGED << activities, loaded, inputVars >>
                   ELSE /\ activities' = (IF json_load_raises(files[date])
                                          THEN << >> ELSE acts)
                        /\ loaded' = Len(activities')
                        /\ last_keypress_time' = now
                        /\ last_activity_time' = now
                        /\ keyboard_listener' \in ListenerStarts
                        /\ UNCHANGED << is_typing, is_idle >>
                        /\ pc' = IF ListenerErrorPropagates(keyboard_listener')
                                 THEN "crashed" ELSE "poll"
    /\ UNCHANGED << now, files, current_activity, pollVars, localVars, wake_at,
                    tick_error, trace, keys, faults, signals >>

----------------------------------------------------------------------------
(* ActivityTracker._on_key_press, on the listener's thread *)

\* a variant of the callback without lines 55-58
KeyPress_keeps_idle ==
    /\ keyboard_listener
    /\ keys > 0
    /\ keys' = keys - 1
    /\ last_keypress_time' = now
    /\ last_activity_time' = now
    /\ is_typing' = TRUE
    /\ UNCHANGED << now, diskVars, pc, setupVars, listVars, pollVars,
                    keyboard_listener, is_idle, localVars, wake_at, tick_error,
                    loaded, trace, faults, signals >>

\* a variant of the callback that also forgets the activity being continued
KeyPress_resets_current ==
    /\ keyboard_listener
    /\ keys > 0
    /\ keys' = keys - 1
    /\ last_keypress_time' = now
    /\ last_activity_time' = now
    /\ is_typing' = TRUE
    /\ is_idle' = FALSE
    /\ current_activity' = None
    /\ UNCHANGED << now, diskVars, pc, setupVars, activities, pollVars,
                    keyboard_listener, localVars, wake_at, tick_error, loaded,
                    trace, faults, signals >>

KeyPress ==
    /\ keyboard_listener
    /\ keys > 0
    /\ keys' = keys - 1
    /\ last_keypress_time' = now
    /\ last_activity_time' = now
    /\ is_typing' = TRUE
    /\ is_idle' = FALSE
    /\ UNCHANGED << now, diskVars, pc, setupVars, listVars, pollVars,
                    keyboard_listener, localVars, wake_at, tick_error, loaded,
                    trace, faults, signals >>

----------------------------------------------------------------------------
(* ActivityTracker.start_tracking: one iteration of `while True` *)

\* the locals of log_current_activity and of the functions it calls are gone
LocalsGone ==
    /\ window_info' = None
    /\ category' = ""
    /\ elapsed' = 0
    /\ timestamp' = 0
    /\ activity' = None

\* a variant in which the exception leaves the loop and ends the process
Caught_fatal ==
    /\ tick_error' = TRUE
    /\ pc' = "crashed"
    /\ wake_at' = wake_at

\* the iteration ends in `except Exception` (line 282) and goes to time.sleep
Caught ==
    /\ tick_error' = TRUE
    /\ pc' = "sleep"
    /\ wake_at' = now + sampling_interval

\* the iteration ends normally and goes to time.sleep
ToSleep ==
    /\ tick_error' = FALSE
    /\ pc' = "sleep"
    /\ wake_at' = now + sampling_interval

\* line 274 reads current_mouse: NameError while no poll has ever succeeded
MouseUnbound(cm) == cm = "unbound"

\* lines 238-274: poll the pointer and the window title
Poll ==
    /\ pc = "poll"
    /\ \E mouse \in MouseOutcomes, title \in TitleOutcomes :
         LET mouse_ok    == mouse # "fail"
             mouse_moved == mouse_ok /\ last_mouse_pos # "None"
                                     /\ mouse # last_mouse_pos
             cm          == IF mouse_ok THEN mouse ELSE current_mouse
             title_ok    == title # NoneStr
             title_moved == title_ok /\ last_window_title # NoneStr
                                     /\ title # last_window_title
             interacted  == mouse_moved \/ title_moved
             failed      == (IF mouse_ok THEN 0 ELSE 1) + (IF title_ok THEN 0 ELSE 1)
         IN  /\ failed <= faults
             /\ faults' = faults - failed
             /\ current_mouse' = cm
             /\ last_window_title' = IF title_ok THEN title ELSE last_window_title
             /\ last_activity_time' = IF interacted THEN now ELSE last_activity_time
             /\ is_idle' = IF interacted THEN FALSE ELSE is_idle
             /\ IF MouseUnbound(cm)
                THEN /\ Caught
                     /\ last_mouse_pos' = last_mouse_pos
                ELSE /\ last_mouse_pos' = cm
                     /\ pc' = "check"
                     /\ tick_error' = FALSE
                     /\ wake_at' = wake_at
    /\ UNCHANGED << now, diskVars, setupVars, listVars, is_typing,
                    last_keypress_time, keyboard_listener, localVars, loaded,
                    trace, keys, signals >>

----------------------------------------------------------------------------
(* ActivityTracker.check_idle_status *)

\* lines 214-215: read the clock and last_activity_time
CheckIdleRead ==
    /\ pc = "check"
    /\ idle_duration' = now - last_activity_time
    /\ pc' = "check_set"
    /\ UNCHANGED << now, diskVars, setupVars, listVars, pollVars, inputVars,
                    window_info, category, elapsed, timestamp, activity,
                    wake_at, tick_error, loaded, trace, keys, faults, signals >>

\* a variant of the idle test that needs more than the threshold
IdleAfterCheck_above_threshold(duration, idle) ==
    IF duration > idle_threshold /\ ~idle THEN TRUE ELSE idle

\* is_idle after lines 218-223
IdleAfterCheck(duration, idle) ==
    IF duration >= idle_threshold /\ ~idle THEN TRUE ELSE idle

\* lines 218-223: mark as idle
CheckIdleSet ==
    /\ pc = "check_set"
    /\ is_idle' = IdleAfterCheck(idle_duration, is_idle)
    /\ idle_duration' = 0
    /\ pc' = "log"
    /\ UNCHANGED << now, diskVars, setupVars, listVars, pollVars, is_typing,
                    last_keypress_time, keyboard_listener, last_activity_time,
                    window_info, category, elapsed, timestamp, activity,
                    wake_at, tick_error, loaded, trace, keys, faults, signals >>

----------------------------------------------------------------------------
(* ActivityTracker.log_current_activity *)

\* lines 143-169: the idle branch, or the probe and the classifier
LogProbe ==
    /\ pc = "log"
    /\ IF is_idle
       THEN /\ timestamp' = now
            /\ activity' = IdleActivity(now, sampling_interval)
            /\ trace' = Append(trace, [idle |-> TRUE, info |-> None])
            /\ pc' = "merge"
            /\ UNCHANGED << window_info, category, elapsed, wake_at, tick_error >>
       ELSE \E raw \in ProbeOutcomes :
            LET info == get_active_window_info(raw)
            IN  IF info = ProbeRaises
                THEN /\ Caught
                     /\ LocalsGone
                     /\ UNCHANGED trace
                ELSE /\ timestamp' = now
                     /\ window_info' = info
                     /\ trace' = Append(trace, [idle |-> FALSE, info |-> info])
                     /\ UNCHANGED << elapsed, wake_at, tick_error >>
                     /\ IF info = None
                        THEN /\ activity' = IdleActivity(now, sampling_interval)
                             /\ pc' = "merge"
                             /\ UNCHANGED category
                        ELSE /\ category' = categorize_activity(info, config)
                             /\ pc' = "typing"
                             /\ UNCHANGED activity
    /\ UNCHANGED << now, diskVars, setupVars, listVars, pollVars, inputVars,
                    idle_duration, loaded, keys, faults, signals >>

\* _check_typing_status, lines 79-83: no listener, or read the clock
TypingRead ==
    /\ pc = "typing"
    /\ IF ~keyboard_listener
       THEN /\ activity' = WindowActivity(timestamp, window_info, category,
                                          sampling_interval, FALSE)
            /\ pc' = "merge"
            /\ UNCHANGED elapsed
       ELSE /\ elapsed' = now - last_keypress_time
            /\ pc' = "typing_set"
            /\ UNCHANGED activity
    /\ UNCHANGED << now, diskVars, setupVars, listVars, pollVars, inputVars,
                    idle_duration, window_info, category, timestamp, wake_at,
                    tick_error, loaded, trace, keys, faults, signals >>

\* a variant of the expiry test that already expires at the threshold
TypingAfterCheck_at_threshold(typing, since) ==
    IF typing /\ since >= typing_inactivity_threshold THEN FALSE ELSE typing

\* is_typing after lines 86-88
TypingAfterCheck(typing, since) ==
    IF typing /\ since > typing_inactivity_threshold THEN FALSE ELSE typing

\* _check_typing_status, lines 86-90, and lines 171-181: build the activity
TypingSet ==
    /\ pc = "typing_set"
    /\ is_typing' = TypingAfterCheck(is_typing, elapsed)
    /\ activity' = WindowActivity(timestamp, window_info, category,
                                  sampling_interval, is_typing')
    /\ elapsed' = 0
    /\ pc' = "merge"
    /\ UNCHANGED << now, diskVars, setupVars, listVars, pollVars,
                    last_keypress_time, keyboard_listener, last_activity_time,
                    is_idle, idle_duration, window_info, category, timestamp,
                    wake_at, tick_error, loaded, trace, keys, faults, signals >>

\* a variant of the merge that updates the first record of the list
MergedTimeline_first(acts, act, interval) ==
    [acts EXCEPT ![1] = MergedRecord(@, act, interval)]

\* lines 191-195: self.activities[-1] is updated in place
MergedTimeline(acts, act, interval) ==
    [acts EXCEPT ![Len(acts)] = MergedRecord(@, act, interval)]

\* a variant of the merge test that compares with the last stored record
Continues_last_stored(idle, cur, acts, act) ==
    /\ ~idle
    /\ acts # << >>
    /\ is_same_activity(acts[Len(acts)], act)

\* line 184 and lines 186-190: the tick continues the last record
Continues(idle, cur, acts, act) ==
    /\ ~idle
    /\ cur # None
    /\ acts # << >>
    /\ is_same_activity(cur, act)

\* lines 183-201: merge into the last record and return, or append
LogMerge ==
    /\ pc = "merge"
    /\ IF Continues(is_idle, current_activity, activities, activity)
       THEN /\ activities' = MergedTimeline(activities, activity, sampling_interval)
            /\ current_activity' = activities'[Len(activities')]
            /\ ToSleep
       ELSE /\ activities' = Append(activities, activity)
            /\ current_activity' = activity
            /\ pc' = "save"
            /\ UNCHANGED << wake_at, tick_error >>
    /\ LocalsGone
    /\ UNCHANGED << now, diskVars, setupVars, pollVars, inputVars,
                    idle_duration, loaded, trace, keys, faults, signals >>

\* open(today_log, 'w') succeeds, or raises
OpenOutcomes == BOOLEAN

\* json.dump writes everything, or raises part-way
WriteOutcomes == BOOLEAN

\* _save_activities, line 102: open(today_log, 'w') truncates the file
SaveOpen ==
    /\ pc = "save"
    /\ \E ok \in OpenOutcomes :
         IF ok
         THEN /\ files' = [files EXCEPT ![today_date] = FileInvalid]
              /\ pc' = "write"
              /\ UNCHANGED << wake_at, tick_error, faults >>
         ELSE /\ faults > 0
              /\ faults' = faults - 1
              /\ Caught
              /\ UNCHANGED files
    /\ UNCHANGED << now, cfgfile, setupVars, listVars, pollVars, inputVars,
                    localVars, loaded, trace, keys, signals >>

\* _save_activities, line 103: json.dump(self.activities, f, indent=4)
SaveWrite ==
    /\ pc = "write"
    /\ \E ok \in WriteOutcomes :
         IF ok
         THEN /\ files' = [files EXCEPT ![today_date] =
                             FileJson(json_dump(activities))]
              /\ ToSleep
              /\ UNCHANGED faults
         ELSE /\ faults > 0
              /\ faults' = faults - 1
              /\ Caught
              /\ UNCHANGED files
    /\ UNCHANGED << now, cfgfile, setupVars, listVars, pollVars, inputVars,
                    localVars, loaded, trace, keys, signals >>

\* line 285: time.sleep(self.sampling_interval) returns
Wake ==
    /\ pc = "sleep"
    /\ now >= wake_at
    /\ pc' = "poll"
    /\ UNCHANGED << now, diskVars, setupVars, listVars, pollVars, inputVars,
                    localVars, wake_at, tick_error, loaded, trace, keys, faults, signals >>

----------------------------------------------------------------------------
(* ActivityTracker.handle_exit, on SIGINT or SIGTERM *)

\* a variant of the handler without sys.exit(0): the loop goes on
handle_exit_returns ==
    /\ Running
    /\ signals > 0
    /\ signals' = signals - 1
    /\ keyboard_listener' = FALSE
    /\ UNCHANGED << now, diskVars, pc, setupVars, listVars, pollVars, is_typing,
                    last_keypress_time, last_activity_time, is_idle, localVars,
                    wake_at, tick_error, loaded, trace, keys, faults >>

handle_exit ==
    /\ Running
    /\ signals > 0
    /\ signals' = signals - 1
    /\ keyboard_listener' = FALSE
    /\ pc' = "exited"
    /\ UNCHANGED << now, diskVars, setupVars, listVars, pollVars, is_typing,
                    last_keypress_time, last_activity_time, is_idle, localVars,
                    wake_at, tick_error, loaded, trace, keys, faults >>

----------------------------------------------------------------------------
(* The clock *)

\* the sleep passes up to MaxJitter seconds before its end
SleepElapses ==
    /\ pc = "sleep"
    /\ now < wake_at - MaxJitter
    /\ wake_at - MaxJitter <= MaxTime
    /\ now' = wake_at - MaxJitter
    /\ UNCHANGED << diskVars, pc, setupVars, listVars, pollVars, inputVars,
                    localVars, wake_at, tick_error, loaded, trace, keys, faults, signals >>

\* one second of the end of the sleep passes
TimePasses ==
    /\ pc = "sleep"
    /\ wake_at - MaxJitter <= now
    /\ now < wake_at
    /\ now < MaxTime
    /\ now' = now + 1
    /\ UNCHANGED << diskVars, pc, setupVars, listVars, pollVars, inputVars,
                    localVars, wake_at, tick_error, loaded, trace, keys, faults, signals >>

----------------------------------------------------------------------------

Next ==
    \/ Construct
    \/ KeyPress
    \/ Poll
    \/ CheckIdleRead
    \/ CheckIdleSet
    \/ LogProbe
    \/ TypingRead
    \/ TypingSet
    \/ LogMerge
    \/ SaveOpen
    \/ SaveWrite
    \/ Wake
    \/ handle_exit
    \/ SleepElapses
    \/ TimePasses

Spec == Init /\ [][Next]_vars

----------------------------------------------------------------------------
(* ActivityTracker.categorize_activity called on its own *)

\* a configuration whose categories overlap and whose ignored app is also a keyword
OverlapConfig ==
    [ ignored_apps |-> << <<"C","o","d","e">> >>,
      categories |-> <<
        [name |-> "Terminal", apps |-> << <<"t","e","r","m">> >>],
        [name |-> "Coding",   apps |-> << <<"v","i","m">>, <<"c","o","d","e">> >>],
        [name |-> "Editors",  apps |-> << <<"V","I","M">>, <<"x","t","e","r","m">> >>] >>,
      sampling_interval |-> 30 ]

\* config_manager.get_config()
CatConfigs == { DEFAULT_CONFIG, CustomConfig, OverlapConfig }

\* window_info['app']
CatApps ==
    { <<"c","o","d","e">>, <<"V","i","m">>, <<"x","t","e","r","m">>,
      <<"S","y","s","t","e","m","U","I">>, <<"g","e","d","i","t">>,
      <<"v","s","c","o","d","e","-","F","i","n","d","e","r">>,
      <<"O","u","t","l","o","o","k">> }

\* window_info['title']
CatTitles ==
    { <<"a",".","p","y">>, <<"M","a","i","l",".","d","o","c">>,
      <<"n","o","t","e","s",".","T","X","T">>,
      <<"m","y"," ","S","c","r","i","p","t",".","d","o","c">>,
      <<"E","m","a","i","l"," ","c","o","d","e">>,
      <<"r","e","a","d","m","e">>, <<"m","a","i","n",".","c">>, <<"x">> }

\* the argument window_info: None, or {'app': ..., 'title': ...}
CatObservations == {None} \cup [app : CatApps, title : CatTitles]

\* a tracker with some configuration, about to classify some observation
CatInit ==
    /\ now = 0
    /\ cfgfile = FileAbsent
    /\ files = [d \in Dates |-> FileAbsent]
    /\ pc = "classify"
    /\ config \in CatConfigs
    /\ today_date = DateOf(0)
    /\ activities = << >>
    /\ current_activity = None
    /\ sampling_interval = get_sampling_interval(config)
    /\ last_mouse_pos = "None"
    /\ last_window_title = NoneStr
    /\ current_mouse = "unbound"
    /\ is_typing \in BOOLEAN
    /\ last_keypress_time = 0
    /\ keyboard_listener = FALSE
    /\ last_activity_time = 0
    /\ is_idle \in BOOLEAN
    /\ idle_duration = 0
    /\ window_info \in CatObservations
    /\ category = ""
    /\ elapsed = 0
    /\ timestamp = 0
    /\ activity = None
    /\ wake_at = 0
    /\ tick_error = FALSE
    /\ loaded = 0
    /\ trace = << >>
    /\ keys = 0
    /\ faults = 0
    /\ signals = 0

\* a variant of the call that uses up the list of ignored apps
Classify_consumes_ignored ==
    /\ pc = "classify"
    /\ category' = categorize_activity(window_info, config)
    /\ config' = [config EXCEPT !.ignored_apps = << >>]
    /\ pc' = "classified"
    /\ UNCHANGED << now, diskVars, today_date, sampling_interval, listVars,
                    pollVars, inputVars, idle_duration, window_info, elapsed,
                    timestamp, activity, wake_at, tick_error, loaded, trace,
                    keys, faults, signals >>

\* category = self.categorize_activity(window_info)
Classify ==
    /\ pc = "classify"
    /\ category' = categorize_activity(window_info, config)
    /\ pc' = "classified"
    /\ UNCHANGED << now, diskVars, setupVars, listVars, pollVars, inputVars,
                    idle_duration, window_info, elapsed, timestamp, activity,
                    wake_at, tick_error, loaded, trace, keys, faults, signals >>

\* the same call once more, on the same observation
ClassifyAgain ==
    /\ pc = "classified"
    /\ category' = categorize_activity(window_info, config)
    /\ pc' = "classified_again"
    /\ UNCHANGED << now, diskVars, setupVars, listVars, pollVars, inputVars,
                    idle_duration, window_info, elapsed, timestamp, activity,
                    wake_at, tick_error, loaded, trace, keys, faults, signals >>

CatNext ==
    \/ Classify
    \/ ClassifyAgain

SpecCat == CatInit /\ [][CatNext]_vars

----------------------------------------------------------------------------
(* Properties of the sampling loop *)

\* the last call of log_current_activity is past its merge-or-append step
TickLogged ==
    pc \in {"save", "write", "sleep", "poll", "check", "check_set", "log"}

\* this step is the merge-or-append step of log_current_activity
MergeStep == pc = "merge" /\ pc' \in {"save", "sleep"}

\* what the tick now in log_current_activity observed
ThisTick == trace[Len(trace)]

\* the tick saw the state Active and its probe returned a window
IsWindowTick(t) == ~t.idle /\ t.info \in Windows

\* the tick was logged as Idle: the state was Idle, or the probe returned nothing
IsIdleTick(t) == t.idle \/ t.info = None

\* the merge key of a window: the app and the title without " (typing)"
KeyOf(info) == << info.app, Remove(info.title, TypingSuffix) >>

\* the step appends one record of one interval and changes no other record
AppendsRecord ==
    /\ Len(activities') = Len(activities) + 1
    /\ SubSeq(activities', 1, Len(activities)) = activities
    /\ activities'[Len(activities')].duration = sampling_interval

\* every tick so far was non-idle and probed the same window, from an empty timeline
SameWindowRun ==
    /\ loaded = 0
    /\ trace # << >>
    /\ \A i \in 1..Len(trace) : IsWindowTick(trace[i]) /\ trace[i].info = trace[1].info

\* C1: from an empty timeline, after n >= 1 consecutive non-idle ticks whose
\* probe returned the same (app, title), the timeline is exactly one record,
\* of that app, whose duration is n x sampling_interval.
C1_SameWindowOneRecord ==
    (TickLogged /\ SameWindowRun) =>
        /\ Len(activities) = 1
        /\ activities[1].app = trace[1].info.app
        /\ activities[1].duration = Len(trace) * sampling_interval

\* three ticks on one window have been merged into one record
C1_Witness ==
    /\ TickLogged
    /\ SameWindowRun
    /\ Len(trace) = 3
    /\ Len(activities) = 1
    /\ activities[1].duration = 3 * sampling_interval

\* every tick so far was a window tick, from an empty timeline
WindowRun ==
    /\ loaded = 0
    /\ trace # << >>
    /\ \A i \in 1..Len(trace) : IsWindowTick(trace[i])

\* C2 as stated: a non-idle tick whose probe returns an app or a title other
\* than the one the previous tick recorded appends a record and leaves the
\* previous record alone; N ticks whose consecutive (app, title) differ give
\* N records.
C2_AnyChangeAppends ==
    /\ []((TickLogged /\ WindowRun
             /\ \A i \in 1..(Len(trace) - 1) : trace[i].info # trace[i + 1].info)
          => Len(activities) = Len(trace))
    /\ [][(/\ MergeStep
           /\ IsWindowTick(ThisTick)
           /\ current_activity # None
           /\ \/ ThisTick.info.app # current_activity.app
              \/ ThisTick.info.title # current_activity.title)
          => AppendsRecord]_vars

\* C2, amended: a non-idle tick whose probe returns an app other than the last
\* record's, or a title that differs from the last record's once every
\* " (typing)" is removed from both, appends a record and leaves the previous
\* record alone; N ticks whose consecutive merge keys differ give N records.
C2_KeyChangeAppends ==
    /\ []((TickLogged /\ WindowRun
             /\ \A i \in 1..(Len(trace) - 1) :
                    KeyOf(trace[i].info) # KeyOf(trace[i + 1].info))
          => Len(activities) = Len(trace))
    /\ [][(/\ MergeStep
           /\ IsWindowTick(ThisTick)
           /\ current_activity # None
           /\ KeyOf(ThisTick.info) # KeyOf(current_activity))
          => AppendsRecord]_vars

\* three ticks with three merge keys gave three records
C2_Witness ==
    /\ TickLogged
    /\ WindowRun
    /\ Len(trace) = 3
    /\ KeyOf(trace[1].info) # KeyOf(trace[2].info)
    /\ KeyOf(trace[2].info) # KeyOf(trace[3].info)
    /\ Len(activities) = 3

\* C3: in a tick where the state is Idle or the probe returns nothing, the
\* activity built for the tick has app "Idle", title "User inactive" and
\* category "Idle", whatever came before.
C3_IdleSynthesis ==
    (pc = "merge" /\ IsIdleTick(ThisTick)) =>
        /\ activity.app = IdleApp
        /\ activity.title = IdleTitle
        /\ activity.category = "Idle"

\* an idle tick after a record of a window, the state being Idle
C3_Witness ==
    /\ pc = "merge"
    /\ ThisTick.idle
    /\ activities # << >>
    /\ activities[Len(activities)].app # IdleApp
    /\ activity.category = "Idle"

\* log_current_activity has returned normally from the last tick
TickReturned == pc = "sleep" /\ ~tick_error /\ trace # << >>

\* no system call of the run has failed so far
NoCallFailed == faults = MaxFaults

\* C4: after every completed tick, appended or merged, the day file holds
\* what json.dump writes for the in-memory timeline; stated here for the runs
\* in which no system call has failed.
C4_FileEqualsMemory ==
    (TickReturned /\ NoCallFailed)
        => files[today_date] = FileJson(json_dump(activities))

\* C5: a day file that is not valid JSON never makes startup fail: the
\* constructor fails only when the configuration file is malformed.
C5_InvalidDayFileLoadsEmpty ==
    (pc = "crashed" /\ json_load_raises(files[DateOf(now)]))
        => json_load_raises(cfgfile)

C7_IdleTransitionAppends ==
    /\ []((/\ TickLogged
           /\ loaded = 0
           /\ Len(trace) = 2
           /\ IsWindowTick(trace[1])
           /\ ~trace[2].idle
           /\ trace[2].info = None)
          => /\ Len(activities) = 2
             /\ activities[1].app = trace[1].info.app
             /\ activities[1].duration = sampling_interval
             /\ activities[2].app = IdleApp
             /\ activities[2].duration = sampling_interval)
    /\ [][(/\ MergeStep
           /\ Len(trace) >= 2
           /\ IsIdleTick(ThisTick) # IsIdleTick(trace[Len(trace) - 1]))
          => AppendsRecord]_vars

\* C10: every record created during the run has a duration that is a positive
\* multiple of sampling_interval: a tick either appends a record of one
\* interval or adds one interval to the last record.
C10_DurationMultiple ==
    /\ [](\A i \in (loaded + 1)..Len(activities) :
            /\ activities[i].duration >= sampling_interval
            /\ activities[i].duration % sampling_interval = 0)
    /\ [][MergeStep =>
            \/ AppendsRecord
            \/ /\ Len(activities') = Len(activities)
               /\ activities'[Len(activities)].duration
                    = activities[Len(activities)].duration + sampling_interval]_vars

\* after a loaded record whose duration is no multiple, a created record was merged into
C10_Witness ==
    /\ loaded = 1
    /\ activities[1].duration % sampling_interval # 0
    /\ Len(activities) = 2
    /\ activities[2].duration = 2 * sampling_interval

----------------------------------------------------------------------------
(* Properties of the classifier *)

\* the app equals an entry of ignored_apps, letter case aside
MatchesIgnored(info, cfg) ==
    \E i \in 1..Len(cfg.ignored_apps) :
        Lower(cfg.ignored_apps[i]) = Lower(info.app)

\* the categories with a keyword that occurs in the app, letter case aside
KeywordHits(info, cfg) ==
    { i \in 1..Len(cfg.categories) :
        \E k \in 1..Len(cfg.categories[i].apps) :
            Contains(Lower(cfg.categories[i].apps[k]), Lower(info.app)) }

\* C8: categorize_activity gives "Idle" for no observation; else "System" when
\* the app equals an ignored_apps entry up to letter case, keyword or not; else
\* the first category in declaration order with a keyword occurring in the app
\* up to letter case.
C8_IgnoredThenFirstCategory ==
    (pc = "classified") =>
        IF window_info = None THEN category = "Idle"
        ELSE IF MatchesIgnored(window_info, config) THEN category = "System"
        ELSE \A i \in KeywordHits(window_info, config) :
                (\A j \in KeywordHits(window_info, config) : i <= j)
                    => category = config.categories[i].name

\* an app with keywords in two categories was given the one declared first
C8_Witness ==
    /\ pc = "classified"
    /\ window_info # None
    /\ ~MatchesIgnored(window_info, config)
    /\ Cardinality(KeywordHits(window_info, config)) >= 2
    /\ \E i \in KeywordHits(window_info, config) :
          /\ category = config.categories[i].name
          /\ \E j \in KeywordHits(window_info, config) :
                i < j /\ config.categories[j].name # category

Mailish(t) ==
    Contains(<<"e","m","a","i","l">>, t) \/ Contains(<<"m","a","i","l">>, t)

Docish(t) ==
    \/ Contains(<<"d","o","c","u","m","e","n","t">>, t)
    \/ Contains(<<".","d","o","c">>, t)
    \/ Contains(<<".","t","x","t">>, t)

Codeish(t) ==
    \/ Contains(<<"c","o","d","e">>, t)
    \/ Contains(<<"s","c","r","i","p","t">>, t)
    \/ \E e \in { <<".","p","y">>, <<".","j","s">>, <<".","h","t","m","l">>,
                  <<".","c","s","s">>, <<".","j","a","v","a">>, <<".","g","o">>,
                  <<".","c">>, <<".","c","p","p">> } : Contains(e, t)

\* C9: for an app that is not ignored and matches no keyword, the lowered title
\* decides: Communication for email/mail, else Documents for document/.doc/.txt,
\* else Coding for code/script/a source extension, else Other; when a keyword
\* matched the app, the result is a matching category whatever the title.
C9_TitleHeuristicsInOrder ==
    (pc = "classified" /\ window_info # None
        /\ ~MatchesIgnored(window_info, config)) =>
        LET t == Lower(window_info.title)
            hits == KeywordHits(window_info, config)
        IN  IF hits # {}
            THEN \E i \in hits : category = config.categories[i].name
            ELSE /\ Mailish(t) => category = "Communication"
                 /\ (~Mailish(t) /\ Docish(t)) => category = "Documents"
                 /\ (~Mailish(t) /\ ~Docish(t) /\ Codeish(t)) => category = "Coding"
                 /\ (~Mailish(t) /\ ~Docish(t) /\ ~Codeish(t)) => category = "Other"

\* a title with a mail word and a document extension was given Communication
C9_Witness ==
    /\ pc = "classified"
    /\ window_info # None
    /\ ~MatchesIgnored(window_info, config)
    /\ KeywordHits(window_info, config) = {}
    /\ Mailish(Lower(window_info.title))
    /\ Docish(Lower(window_info.title))
    /\ category = "Communication"

----------------------------------------------------------------------------
(* Properties of the timeline and of the runtime state *)

\* C11: the timeline is append-only: no step shortens it, no step changes or
\* reorders a record other than the last one, so a record is never changed
\* again once a later record has been appended.
C11_AppendOnly ==
    [][/\ Len(activities') >= Len(activities)
       /\ \A i \in 1..(Len(activities) - 1) : activities'[i] = activities[i]]_vars

\* after a loaded record, a created record was appended and then merged into
C11_Witness ==
    /\ loaded = 1
    /\ Len(activities) = 3
    /\ activities[1] = EarlierRecord
    /\ activities[3].duration = 2 * sampling_interval

\* the tick before the one now in log_current_activity
PrevTick == trace[Len(trace) - 1]

\* C12: when two consecutive non-idle ticks probe the same app and title and
\* the typing status differs from the stored one, the later tick is merged:
\* the titles agree once " (typing)" is removed, no record is added, the last
\* record grows by one interval and takes the tick's title and is_typing.
C12_TypingChangeMerges ==
    [][(/\ MergeStep
        /\ Len(trace) >= 2
        /\ IsWindowTick(ThisTick)
        /\ IsWindowTick(PrevTick)
        /\ PrevTick.info = ThisTick.info
        /\ activity.is_typing # current_activity.is_typing)
       => /\ Remove(current_activity.title, TypingSuffix)
               = Remove(activity.title, TypingSuffix)
          /\ Len(activities') = Len(activities)
          /\ SubSeq(activities', 1, Len(activities) - 1)
               = SubSeq(activities, 1, Len(activities) - 1)
          /\ activities'[Len(activities)].duration
               = activities[Len(activities)].duration + sampling_interval
          /\ activities'[Len(activities)].title = activity.title
          /\ activities'[Len(activities)].is_typing = activity.is_typing]_vars

\* a tick without typing and then a tick with typing, the only key press
\* coming after the first: one record, marked typing, of two intervals
C12_Witness ==
    /\ TickLogged
    /\ SameWindowRun
    /\ Len(trace) = 2
    /\ keys = MaxKeys - 1
    /\ last_keypress_time > activities[1].timestamp + typing_inactivity_threshold
    /\ Len(activities) = 1
    /\ activities[1].is_typing
    /\ activities[1].title = trace[2].info.title \o TypingSuffix
    /\ activities[1].duration = 2 * sampling_interval

\* _check_typing_status returns in this step, from its first line
TypingReturnsEarly == pc = "typing" /\ pc' = "merge"

\* _check_typing_status returns in this step, from its last line
TypingReturns == pc = "typing_set" /\ pc' = "merge"

IdleCheckReturns == pc = "check_set" /\ pc' = "log"

\* C14: the idle check of a tick makes the state Idle when the inactivity it
\* read (now - last_activity_time) has reached idle_threshold and the state is
\* not Idle yet; an Idle state stays as it is, so the transition is not taken
\* again at the following idle ticks; below the threshold the check leaves the
\* state alone; and nothing but the idle check ever makes the state Idle.
C14_IdleTransitionOnce ==
    /\ [](pc = "check_set"
            => \/ idle_duration = now - last_activity_time
               \/ last_activity_time = now)
    /\ [][IdleCheckReturns
          => /\ (idle_duration >= idle_threshold /\ ~is_idle) => is_idle'
             /\ is_idle => is_idle'
             /\ (idle_duration < idle_threshold) => (is_idle' = is_idle)]_vars
    /\ [][(~is_idle /\ is_idle')
          => (IdleCheckReturns /\ idle_duration >= idle_threshold)]_vars

\* the state became Idle at one tick and the next tick's check found it Idle
C14_Witness ==
    /\ pc = "log"
    /\ is_idle
    /\ Len(trace) >= 2
    /\ ~trace[Len(trace) - 1].idle
    /\ trace[Len(trace)].idle
    /\ now - last_activity_time >= 2 * idle_threshold

\* _on_key_press runs in this step
KeyPressed == keys' = keys - 1

\* the poll of this step finds the pointer away from the previous tick's position
PointerMoved ==
    pc = "poll" /\ last_mouse_pos # "None" /\ current_mouse' # last_mouse_pos

\* the poll of this step finds a window title other than the previous tick's
TitleChanged ==
    /\ pc = "poll"
    /\ last_window_title # NoneStr
    /\ last_window_title' # last_window_title

\* C15: a key press, a moved pointer and a changed window title each set
\* last_activity_time to the current time and leave the state Active; the idle
\* check of a tick that starts with last_activity_time at the current time
\* reads an inactivity of 0 and leaves the state Active, so such a tick is not
\* logged as Idle because of the threshold.
C15_InteractionResetsIdle ==
    /\ [][(KeyPressed \/ PointerMoved \/ TitleChanged)
          => (last_activity_time' = now /\ ~is_idle')]_vars
    /\ [][(pc = "check" /\ pc' = "check_set" /\ last_activity_time = now)
          => idle_duration' = 0]_vars
    /\ [][(IdleCheckReturns /\ idle_duration = 0) => ~is_idle']_vars

\* after an idle tick, a poll found a change and the tick reached its log
\* step in the state Active, in a run without key presses
C15_Witness ==
    /\ pc = "log"
    /\ trace # << >>
    /\ trace[Len(trace)].idle
    /\ ~is_idle
    /\ last_activity_time = now
    /\ faults + signals > 0

\* _save_activities raises in this step
SaveFails == pc \in {"save", "write"} /\ tick_error'

\* _save_activities returns in this step
SaveReturns == pc = "write" /\ pc' = "sleep" /\ ~tick_error'

\* C16: a failing write of the day file is caught: the loop goes to its sleep
\* and on to the next tick, the tracker is never stopped by it, the in-memory
\* timeline keeps the record of the failed tick, and every persist that
\* succeeds writes the whole in-memory timeline.
C16_WriteFailureCaught ==
    /\ [](pc = "crashed" => (trace = << >> /\ now = 0))
    /\ [][SaveFails => (pc' = "sleep" /\ activities' = activities
                          /\ current_activity' = current_activity)]_vars
    /\ [][(pc = "sleep" /\ tick_error /\ pc' # "sleep")
          => pc' \in {"poll", "exited"}]_vars
    /\ [][SaveReturns
          => files'[today_date] = FileJson(json_dump(activities))]_vars

\* the write of the first record failed, the record is still in memory and
\* the loop has reached the poll of the next tick
C16_Witness ==
    /\ pc = "poll"
    /\ tick_error
    /\ files[today_date] = FileInvalid
    /\ loaded = 0
    /\ Len(activities) = 1
    /\ current_activity = activities[1]

\* C17: a persist replaces the day file atomically: once the tracker is
\* constructed, the file of the day is at every instant absent or a complete
\* timeline, never empty or cut short.
C17_FileNeverPartial ==
    (pc \notin {"init", "crashed"}) => files[today_date].kind # "invalid"

\* handle_exit runs in this step
SignalHandled == signals' = signals - 1

\* C18: the handler of a termination signal stops the keyboard listener and
\* takes the main thread out of the loop; from then on the listener stays
\* stopped and no step appends or merges a record, starts a tick or a
\* key-press callback, or writes a file.
C18_NothingAfterExit ==
    /\ [][SignalHandled => (pc' = "exited" /\ ~keyboard_listener')]_vars
    /\ [](pc = "exited" => ~keyboard_listener)
    /\ [][(pc = "exited")
          => /\ activities' = activities
             /\ current_activity' = current_activity
             /\ files' = files
             /\ trace' = trace
             /\ keys' = keys
             /\ pc' = pc]_vars

\* the signal was handled after ticks had been logged
C18_Witness ==
    /\ signals < MaxSignals
    /\ pc = "exited"
    /\ ~keyboard_listener
    /\ Len(trace) >= 2
    /\ activities # << >>

\* C19: a termination signal never stops the process inside a tick's persist,
\* so after the shutdown the day file is not left partially written.
C19_ExitLeavesFileWhole ==
    (pc = "exited") => files[today_date].kind # "invalid"

\* C20: after the local date has changed, ticks are recorded in a timeline of
\* the new day and persisted to the new day's file: the timeline never holds
\* records of two dates, and a write only changes the file of the current date.
C20_MidnightRollover ==
    /\ [](\A i \in (loaded + 1)..Len(activities) :
            DateOf(activities[i].timestamp)
              = DateOf(activities[Len(activities)].timestamp))
    /\ [][\A d \in Dates : (files'[d] # files[d]) => (d = DateOf(now))]_vars

\* C21: when the configuration file exists and is not valid JSON, the
\* construction of the tracker fails: no configuration is installed, no tick
\* is ever executed and nothing is recorded or written.
C21_MalformedConfigIsFatal ==
    json_load_raises(cfgfile) =>
        /\ pc \in {"init", "crashed"}
        /\ config = None
        /\ sampling_interval = 0
        /\ trace = << >>
        /\ activities = << >>
        /\ ~keyboard_listener
        /\ \A d \in Dates : d # DateOf(0) => files[d] = FileAbsent

\* the construction has failed on a malformed configuration file, the day
\* file being a valid timeline
C21_Witness ==
    /\ pc = "crashed"
    /\ json_load_raises(cfgfile)
    /\ files[DateOf(0)].kind = "json"
    /\ config = None

\* C22: the key-press callback changes only last_keypress_time,
\* last_activity_time, is_typing and is_idle: it leaves the timeline, the
\* current activity, the files and the position of the main thread alone.
\* The timeline and the current activity change only in the constructor and
\* in the merge-or-append step of the main thread, the day file only in that
\* thread's persist, and a tick begins only after the constructor or after
\* the sleep that follows the previous tick's persist.
C22_KeyPressFrame ==
    /\ [][KeyPressed
          => UNCHANGED << activities, current_activity, files, cfgfile, pc,
                          config, today_date, sampling_interval,
                          last_mouse_pos, last_window_title, keyboard_listener,
                          localVars, trace >>]_vars
    /\ [][(activities' # activities \/ current_activity' # current_activity)
          => (~KeyPressed /\ pc \in {"init", "merge"})]_vars
    /\ [][(files' # files) => (~KeyPressed /\ pc \in {"save", "write"})]_vars
    /\ [][(pc' = "poll" /\ pc # "poll") => pc \in {"init", "sleep"}]_vars
    /\ [][(pc \in {"save", "write"}) => pc' \in {pc, "write", "sleep", "exited"}]_vars

\* a key was pressed while the main thread was between building the record of
\* a tick and the end of its persist
C22_Witness ==
    /\ pc = "write"
    /\ now > 0
    /\ is_typing
    /\ last_keypress_time = now
    /\ "is_typing" \in DOMAIN current_activity
    /\ ~current_activity.is_typing
    /\ files[today_date] = FileInvalid

\* the constructor loads a day file that holds a timeline
LoadsTimeline ==
    pc = "init" /\ pc' = "poll" /\ files[DateOf(now)].kind = "json"

C25_PollFailureKeepsTick ==
    [][(pc = "poll" /\ pc' \notin {"poll", "exited"})
       => (pc' = "check" /\ ~tick_error')]_vars

\* C26: however the key-press callback interleaves with check_idle_status,
\* once the idle check has returned, is_idle is true only if the time since
\* last_activity_time is at least the idle threshold.
C26_IdleOnlyAfterThreshold ==
    (pc = "log" /\ is_idle) => (now - last_activity_time >= idle_threshold)

\* C27: with the listener active and however the key-press callback
\* interleaves with _check_typing_status, a call that returns no more than the
\* typing threshold after the most recent key press returns true (and leaves
\* the typing flag set).
C27_TypingWithinThreshold ==
    [][(/\ TypingReturns
        /\ keyboard_listener
        /\ is_typing
        /\ now - last_keypress_time <= typing_inactivity_threshold)
       => (is_typing' /\ activity'.is_typing)]_vars

\* C28: a tick executed while the state is Idle always appends a new Idle
\* record whose duration is one sampling interval and leaves every earlier
\* record alone; it is never merged, not even into a last record that is an
\* Idle record.
C28_IdleTickAppends ==
    [][(MergeStep /\ ThisTick.idle)
       => /\ AppendsRecord
          /\ activities'[Len(activities')] = IdleActivity(now, sampling_interval)]_vars

\* C29: the record of a tick executed in the Idle state and the activity of
\* a tick executed in the Active state are never merged, even when their app
\* and title coincide: the later tick appends a record; stated here for the
\* runs without key presses in which no system call has failed.
C29_IdleNeverMergesWithActive ==
    [][(/\ MergeStep
        /\ NoCallFailed
        /\ Len(trace) >= 2
        /\ PrevTick.idle # ThisTick.idle)
       => AppendsRecord]_vars

\* C30 as stated: in every reachable timeline two adjacent records differ in
\* app or in title (typing suffix removed).
C30_AdjacentDiffer ==
    \A i \in 1..(Len(activities) - 1) :
        KeyOf(activities[i]) # KeyOf(activities[i + 1])

\* C30, amended: two adjacent records appended during the run have the same
\* app and the same title (typing suffix removed) only when the later one is
\* an Idle record appended by a tick executed in the Idle state; a tick in
\* the Active state appends after a record of this run only when its merge
\* key differs from that record's.
C30_AdjacentEqualOnlyIdle ==
    /\ [](current_activity # None
            => /\ Len(activities) > loaded
               /\ current_activity = activities[Len(activities)])
    /\ [][(/\ MergeStep
           /\ current_activity # None
           /\ KeyOf(activity) = KeyOf(current_activity)
           /\ Len(activities') > Len(activities))
          => /\ ThisTick.idle
             /\ activity = IdleActivity(now, sampling_interval)]_vars
    /\ [](\A i \in (loaded + 1)..(Len(activities) - 1) :
            KeyOf(activities[i]) = KeyOf(activities[i + 1])
              => /\ activities[i + 1].app = IdleApp
                 /\ Remove(activities[i + 1].title, TypingSuffix) = IdleTitle
                 /\ activities[i + 1].category = "Idle")

\* two ticks in the Idle state have left two adjacent Idle records after the
\* record of a window
C30_Witness ==
    /\ TickLogged
    /\ loaded = 0
    /\ Len(trace) = 3
    /\ IsWindowTick(trace[1])
    /\ trace[2].idle
    /\ trace[3].idle
    /\ Len(activities) = 3
    /\ KeyOf(activities[2]) = KeyOf(activities[3])
    /\ activities[3] = IdleActivity(activities[3].timestamp, sampling_interval)

\* the listener could not be started: the tracker runs without one
NoListener == Running /\ ~keyboard_listener

\* C31: when the keyboard listener cannot be started the constructor still
\* succeeds; from then on _check_typing_status returns false from its first
\* line at every call, the typing flag is never set, no record of the run is
\* marked as typing, and the loop is never left because of it.
C31_NoListenerNeverTyping ==
    /\ [][(/\ pc = "init"
           /\ ~json_load_raises(cfgfile)
           /\ ~json_load_raises(files[DateOf(now)]))
          => pc' = "poll"]_vars
    /\ [](NoListener
            => /\ ~is_typing
               /\ pc # "typing_set"
               /\ keys \in {0, MaxKeys}
               /\ \A i \in (loaded + 1)..Len(activities) :
                     "is_typing" \in DOMAIN activities[i]
                        => ~activities[i].is_typing)
    /\ [][(NoListener /\ pc = "typing" /\ pc' \notin {"typing", "exited"})
          => /\ pc' = "merge"
             /\ ~activity'.is_typing
             /\ activity'.title = window_info.title]_vars
    /\ [][NoListener => (pc' # "crashed" /\ ~keyboard_listener')]_vars

\* without a listener, two ticks have been logged, the later one on a window
C31_Witness ==
    /\ NoListener
    /\ TickLogged
    /\ Len(trace) >= 2
    /\ IsWindowTick(ThisTick)
    /\ "is_typing" \in DOMAIN activities[Len(activities)]
    /\ ~activities[Len(activities)].is_typing
    /\ Len(activities) >= loaded + 2

\* the main thread is between two ticks
TickBoundary == pc \in {"sleep", "poll"}

\* no system call of the run has failed so far: the run's failures are unused,
\* or the run is one with key presses or a signal, in which no call fails
NoWriteFailed == faults = MaxFaults \/ keys > 0 \/ signals > 0

\* the timeline json.load reads from the day file, empty when there is no file
Persisted ==
    IF files[today_date].kind = "json"
    THEN json_load(files[today_date].data) ELSE << >>

\* C32: provided no write has failed, between two ticks the day file is whole
\* and holds as many records as the in-memory timeline, equal to it in every
\* record but the last; the persisted last record has the timestamp, app and
\* category of the in-memory one and a duration less than or equal to it.
C32_FileLagsOnlyLastRecord ==
    (TickBoundary /\ NoWriteFailed) =>
        /\ files[today_date].kind # "invalid"
        /\ Len(Persisted) = Len(activities)
        /\ \A i \in 1..(Len(activities) - 1) : Persisted[i] = activities[i]
        /\ activities # << >> =>
              LET onDisk == Persisted[Len(activities)]
                  inMem  == activities[Len(activities)]
              IN  /\ onDisk.timestamp = inMem.timestamp
                  /\ onDisk.app = inMem.app
                  /\ onDisk.category = inMem.category
                  /\ onDisk.duration <= inMem.duration

\* between two ticks the file holds two records and its last record is one
\* merged tick behind the in-memory one
C32_Witness ==
    /\ TickBoundary
    /\ NoWriteFailed
    /\ Len(activities) = 2
    /\ Len(Persisted) = 2
    /\ Persisted[1] = activities[1]
    /\ Persisted[2].duration = sampling_interval
    /\ activities[2].duration = 2 * sampling_interval

\* the sum of the durations of a timeline
RECURSIVE SumDurations(_)
SumDurations(acts) ==
    IF acts = << >> THEN 0
    ELSE acts[1].duration + SumDurations(Tail(acts))

\* the sum of the durations loaded at startup
LoadedSum == SumDurations(SubSeq(activities, 1, loaded))

\* the number of ticks of the run that are past the merge-or-append step
TicksMerged ==
    IF pc \in {"typing", "typing_set", "merge"} THEN Len(trace) - 1 ELSE Len(trace)

\* C33 as stated: the sum of all durations is the sum loaded at startup plus
\* sampling_interval x the number of ticks that completed
\* log_current_activity: between two ticks of a run without a failed call
\* every tick counts, and the first tick of a run whose log_current_activity
\* raises (in its persist) does not count.
C33_SumCountsCompletedTicks ==
    /\ []((TickBoundary /\ NoWriteFailed)
            => SumDurations(activities)
                 = LoadedSum + sampling_interval * Len(trace))
    /\ [][(SaveFails /\ NoCallFailed)
          => SumDurations(activities')
               = LoadedSum' + sampling_interval * (Len(trace') - 1)]_vars

\* C33, amended: while the tracker runs, the sum of all durations is the sum
\* loaded at startup plus sampling_interval x the number of ticks that are
\* past the merge-or-append step, whether or not the persist of an appended
\* record succeeded; the step adds exactly one interval to exactly one record.
C33_SumCountsMergedTicks ==
    /\ [](Running
            => SumDurations(activities)
                 = LoadedSum + sampling_interval * TicksMerged)
    /\ [][MergeStep
          => /\ SumDurations(activities')
                  = SumDurations(activities) + sampling_interval
             /\ \/ AppendsRecord
                \/ /\ Len(activities') = Len(activities)
                   /\ \A i \in 1..(Len(activities) - 1) :
                         activities'[i] = activities[i]]_vars

\* the persist of the second tick's record has failed and the record counts:
\* a loaded record and two intervals
C33_Witness ==
    /\ pc = "poll"
    /\ tick_error
    /\ loaded = 1
    /\ Len(trace) = 2
    /\ Len(activities) = 3
    /\ Len(Persisted) < 3
    /\ SumDurations(activities) = EarlierRecord.duration + 2 * sampling_interval

\* C34: the first tick logged after startup appends a record, even when the
\* loaded timeline ends with a record of the same app and title, because
\* current_activity is None after construction; the records loaded at
\* startup are never changed and stay the first records of the timeline.
C34_LoadedPrefixKept ==
    /\ [](pc = "poll" /\ trace = << >> => current_activity = None)
    /\ [][(MergeStep /\ Len(trace) = 1)
          => /\ AppendsRecord
             /\ activities'[Len(activities')] = activity
             /\ Len(activities) = loaded]_vars
    /\ [](loaded <= Len(activities))
    /\ [][(pc # "init")
          => /\ loaded' = loaded
             /\ SubSeq(activities', 1, loaded) = SubSeq(activities, 1, loaded)]_vars

\* the first two ticks of a run probed the window of the loaded record: the
\* loaded record is as it was and the run's record holds both ticks
C34_Witness ==
    /\ TickLogged
    /\ loaded = 1
    /\ Len(trace) = 2
    /\ activities[1] = EarlierRecord
    /\ Len(activities) = 2
    /\ KeyOf(activities[2]) = KeyOf(EarlierRecord)
    /\ activities[2].duration = 2 * sampling_interval

\* the tick and the tick before it saw the state Active and a probe that
\* returned nothing
TwoProbeNothingTicks ==
    /\ Len(trace) >= 2
    /\ ~ThisTick.idle /\ ThisTick.info = None
    /\ ~PrevTick.idle /\ PrevTick.info = None

\* the later of two probe-nothing ticks in the Active state is merged into
\* the Idle record of the earlier one
ProbeNothingTicksMerge ==
    [][(MergeStep /\ TwoProbeNothingTicks)
       => /\ Len(activities') = Len(activities)
          /\ activities' = [activities EXCEPT ![Len(activities)].duration =
                                                 @ + sampling_interval]
          /\ activities'[Len(activities')].app = IdleApp]_vars

\* C35: consecutive ticks in the Active state whose probe returns nothing are
\* merged into one Idle record that grows by one interval per tick, while
\* every tick in the Idle state is recorded as a record of its own.
C35_ProbeNothingMergesIdleAppends ==
    /\ ProbeNothingTicksMerge
    /\ [][(MergeStep /\ ThisTick.idle) => AppendsRecord]_vars

----------------------------------------------------------------------------
(* The legacy tracker of bkp/main_v2.py: its ActivityTracker and main loop *)

\* start_tracking: idle_threshold = 300
V2_idle_threshold == 300

\* get_active_window_info: every exception is caught and None is returned
V2_get_active_window_info(raw) == IF raw = ProbeRaises THEN None ELSE raw

\* log_current_activity: the dict of a tick without a window
V2_IdleActivity(ts, interval) ==
    [ timestamp |-> ts, app |-> IdleApp, title |-> IdleTitle,
      category |-> "Idle", duration |-> interval ]

\* log_current_activity: the dict of a tick with a window
V2_WindowActivity(ts, info, cat, interval) ==
    [ timestamp |-> ts, app |-> info.app, title |-> info.title,
      category |-> cat, duration |-> interval ]

\* what the module's other variables are in this program: not used
V2_Unused ==
    UNCHANGED << pollVars, is_typing, last_keypress_time, keyboard_listener,
                 elapsed, wake_at, tick_error, trace, keys >>

\* the state before ActivityTracker() is constructed
V2_Init ==
    /\ now = 0
    /\ cfgfile \in ConfigFiles
    /\ \E f \in DayFiles :
         files = [d \in Dates |-> IF d = DateOf(0) THEN f ELSE FileAbsent]
    /\ faults \in {0, MaxFaults}
    /\ signals \in {0, MaxSignals}
    /\ keys = 0
    /\ pc = "v2_init"
    /\ config = None
    /\ today_date = ""
    /\ activities = << >>
    /\ current_activity = None
    /\ sampling_interval = 30
    /\ last_mouse_pos = "None"
    /\ last_window_title = NoneStr
    /\ current_mouse = "unbound"
    /\ is_typing = FALSE
    /\ last_keypress_time = 0
    /\ keyboard_listener = FALSE
    /\ last_activity_time = 0
    /\ is_idle = FALSE
    /\ idle_duration = 0
    /\ window_info = None
    /\ category = ""
    /\ elapsed = 0
    /\ timestamp = 0
    /\ activity = None
    /\ wake_at = 0
    /\ tick_error = FALSE
    /\ loaded = 0
    /\ trace = << >>

\* __init__, load_config and load_today_activities: json.load is not guarded
V2_Construct ==
    /\ pc = "v2_init"
    /\ today_date' = DateOf(now)
    /\ IF json_load_raises(cfgfile)
       THEN /\ pc' = "crashed"
            /\ UNCHANGED << cfgfile, config, sampling_interval, activities,
                            loaded, last_activity_time >>
       ELSE /\ cfgfile' = IF cfgfile.kind = "absent"
                          THEN FileJson(DEFAULT_CONFIG) ELSE cfgfile
            /\ config' = load_config(cfgfile)
            /\ sampling_interval' = get_sampling_interval(config')
            /\ IF json_load_raises(files[DateOf(now)])
               THEN /\ pc' = "crashed"
                    /\ UNCHANGED << activities, loaded, last_activity_time >>
               ELSE /\ activities' = load_today_activities(files[DateOf(now)])
                    /\ loaded' = Len(activities')
                    /\ last_activity_time' = now
                    /\ pc' = "v2_loop"
    /\ V2_Unused
    /\ UNCHANGED << now, files, current_activity, is_idle, idle_duration,
                    window_info, category, timestamp, activity, faults, signals >>

\* start_tracking, lines 377-389: the loop's own probe and idle test; the
\* window_info of these lines is a local that log_current_activity never sees
V2_Loop ==
    /\ pc = "v2_loop"
    /\ \E raw \in ProbeOutcomes :
         LET info == V2_get_active_window_info(raw)
         IN  /\ last_activity_time' = IF info # None THEN now ELSE last_activity_time
             /\ idle_duration' = now - last_activity_time'
             /\ is_idle' = (idle_duration' >= V2_idle_threshold)
    /\ pc' = "v2_log"
    /\ V2_Unused
    /\ UNCHANGED << now, diskVars, setupVars, listVars, window_info, category,
                    timestamp, activity, loaded, faults, signals >>

\* log_current_activity, lines 158-178: probe again and build the dict
V2_LogProbe ==
    /\ pc = "v2_log"
    /\ \E raw \in ProbeOutcomes :
         LET info == V2_get_active_window_info(raw)
         IN  /\ window_info' = info
             /\ timestamp' = now
             /\ IF info = None
                THEN /\ activity' = V2_IdleActivity(now, sampling_interval)
                     /\ UNCHANGED category
                ELSE /\ category' = categorize_activity(info, config)
                     /\ activity' = V2_WindowActivity(now, info, category',
                                                      sampling_interval)
    /\ pc' = "v2_merge"
    /\ V2_Unused
    /\ UNCHANGED << now, diskVars, setupVars, listVars, last_activity_time,
                    is_idle, idle_duration, loaded, faults, signals >>

\* log_current_activity, lines 181-192: merge or append, then save_activities,
\* whose open() or json.dump may raise; window_info['app'] raises TypeError
\* when window_info is None; an exception leaves the `while True` of
\* start_tracking
V2_LogMerge ==
    /\ pc = "v2_merge"
    /\ LET compared == current_activity # None /\ activities # << >>
           seen     == window_info
       IN  IF compared /\ seen = None
           THEN /\ pc' = "v2_raised"
                /\ UNCHANGED << files, listVars, faults >>
           ELSE /\ IF /\ compared
                      /\ current_activity.app = seen.app
                      /\ current_activity.title = seen.title
                   THEN /\ activities' = [activities EXCEPT
                                            ![Len(activities)].duration =
                                                @ + sampling_interval]
                        /\ current_activity' = activities'[Len(activities')]
                   ELSE /\ activities' = Append(activities, activity)
                        /\ current_activity' = activity
                /\ \E ok \in WriteOutcomes :
                     IF ok
                     THEN /\ files' = [files EXCEPT ![today_date] =
                                         FileJson(json_dump(activities'))]
                          /\ pc' = "v2_sleep"
                          /\ UNCHANGED faults
                     ELSE /\ faults > 0
                          /\ faults' = faults - 1
                          /\ files' \in {files, [files EXCEPT ![today_date] =
                                                                FileInvalid]}
                          /\ pc' = "v2_raised"
    /\ V2_Unused
    /\ UNCHANGED << now, cfgfile, setupVars, last_activity_time, is_idle,
                    idle_duration, window_info, category, timestamp, activity,
                    loaded, signals >>

\* line 392: time.sleep(self.sampling_interval)
V2_Sleep ==
    /\ pc = "v2_sleep"
    /\ now + sampling_interval <= MaxTime
    /\ now' = now + sampling_interval
    /\ pc' = "v2_loop"
    /\ V2_Unused
    /\ UNCHANGED << diskVars, setupVars, listVars, last_activity_time, is_idle,
                    idle_duration, window_info, category, timestamp, activity,
                    loaded, faults, signals >>

\* lines 394-396: `except Exception` around the loop calls handle_exit, which
\* writes the report and ends the process with sys.exit(0)
V2_Except ==
    /\ pc = "v2_raised"
    /\ pc' = "exited"
    /\ V2_Unused
    /\ UNCHANGED << now, diskVars, setupVars, listVars, last_activity_time,
                    is_idle, idle_duration, window_info, category, timestamp,
                    activity, loaded, faults, signals >>

\* handle_exit on SIGINT or SIGTERM
V2_handle_exit ==
    /\ pc \in {"v2_loop", "v2_log", "v2_merge", "v2_sleep"}
    /\ signals > 0
    /\ signals' = signals - 1
    /\ pc' = "exited"
    /\ V2_Unused
    /\ UNCHANGED << now, diskVars, setupVars, listVars, last_activity_time,
                    is_idle, idle_duration, window_info, category, timestamp,
                    activity, loaded, faults >>

V2_Next ==
    \/ V2_Construct
    \/ V2_Loop
    \/ V2_LogProbe
    \/ V2_LogMerge
    \/ V2_Sleep
    \/ V2_Except
    \/ V2_handle_exit

SpecV2 == V2_Init /\ [][V2_Next]_vars

\* C36: in bkp/main_v2.py, a tick whose probe returns nothing after at least
\* one activity has been recorded is logged as an Idle record, and the loop
\* goes on to its sleep and the next tick: when no write fails, the probe
\* failure never takes the tracker out of the loop.
C36_V2ProbeNothingIsIdle ==
    [][(/\ pc = "v2_merge"
        /\ pc' \notin {"v2_merge", "exited"}
        /\ window_info = None
        /\ current_activity # None
        /\ faults' = faults)
       => /\ pc' = "v2_sleep"
          /\ activities'[Len(activities')].app = IdleApp
          /\ SumDurations(activities')
               = SumDurations(activities) + sampling_interval]_vars

=============================================================================
